---- MODULE Spec2Model ----
(***************************************************************************)
(* Domain network builder (Alterya/Globe): graph assembly from tabular    *)
(* rows (graph_builder.py, node_manager.py) and the size-bounded node     *)
(* selection of the HTML generators.                                      *)
(*                                                                         *)
(* A Python str is a sequence of one-character strings, so that strip,    *)
(* lower, replace, startswith, rstrip and split are computed character by *)
(* character as the code computes them.  A missing cell (pandas NaN) is   *)
(* the one-element sequence NaN, which is no character sequence.          *)
(***************************************************************************)
EXTENDS Integers, Sequences, FiniteSets, TLC

\* ------------------------------------------------------------------ bounds
\* Longest frame handed to load_csv_data.
MaxRows == 2
\* Number of load/clean/build rounds run on one builder.
MaxBuilds == 2

\* ----------------------------------------------------------------- strings
NaN == <<"NaN">>
isna(x) == x = NaN
notna(x) == x # NaN

Whitespace == {" ", "\t", "\n"}

UpperChars == <<"A","B","C","D","E","F","G","H","I","J","K","L","M",
                "N","O","P","Q","R","S","T","U","V","W","X","Y","Z">>
LowerChars == <<"a","b","c","d","e","f","g","h","i","j","k","l","m",
                "n","o","p","q","r","s","t","u","v","w","x","y","z">>

LowerChar(c) ==
    IF \E i \in 1..Len(UpperChars) : UpperChars[i] = c
    THEN LowerChars[CHOOSE i \in 1..Len(UpperChars) : UpperChars[i] = c]
    ELSE c

\* str.lower()
lower(s) == [i \in 1..Len(s) |-> LowerChar(s[i])]

SetMin(S) == CHOOSE x \in S : \A y \in S : x <= y
SetMax(S) == CHOOSE x \in S : \A y \in S : y <= x

\* str.strip(): leading and trailing whitespace removed
strip(s) ==
    LET keep == {i \in 1..Len(s) : s[i] \notin Whitespace}
    IN  IF keep = {} THEN <<>> ELSE SubSeq(s, SetMin(keep), SetMax(keep))

\* str.startswith(p)
startswith(s, p) == Len(s) >= Len(p) /\ SubSeq(s, 1, Len(p)) = p

\* str.replace(old, ""): every non-overlapping occurrence, left to right
RECURSIVE remove(_, _)
remove(s, old) ==
    IF Len(s) < Len(old) THEN s
    ELSE IF SubSeq(s, 1, Len(old)) = old
         THEN remove(SubSeq(s, Len(old) + 1, Len(s)), old)
         ELSE <<s[1]>> \o remove(Tail(s), old)

\* str.rstrip(c): every trailing c removed
rstrip(s, c) ==
    LET keep == {i \in 1..Len(s) : s[i] # c}
    IN  IF keep = {} THEN <<>> ELSE SubSeq(s, 1, SetMax(keep))

\* str.split(sep) for a one-character separator: always at least one piece
RECURSIVE split(_, _)
split(s, sep) ==
    LET hits == {i \in 1..Len(s) : s[i] = sep}
    IN  IF hits = {} THEN <<s>>
        ELSE LET i == SetMin(hits)
             IN  <<SubSeq(s, 1, i - 1)>> \o split(SubSeq(s, i + 1, Len(s)), sep)

S_https == <<"h","t","t","p","s",":","/","/">>
S_http  == <<"h","t","t","p",":","/","/">>
S_www   == <<"w","w","w",".">>

\* DomainNetworkBuilder._normalize_domain
_normalize_domain(domain) ==
    IF isna(domain) THEN <<>>
    ELSE LET d1 == lower(strip(domain))
             d2 == remove(remove(d1, S_https), S_http)
             d3 == IF startswith(d2, S_www) THEN SubSeq(d2, 5, Len(d2)) ELSE d2
         IN  rstrip(d3, "/")

RECURSIVE NormalizeEach(_)
NormalizeEach(pieces) ==
    IF pieces = <<>> THEN <<>>
    ELSE LET normalized == _normalize_domain(strip(Head(pieces)))
         IN  (IF normalized # <<>> THEN <<normalized>> ELSE <<>>)
             \o NormalizeEach(Tail(pieces))

\* DomainNetworkBuilder._parse_domain_list
_parse_domain_list(domain_string) ==
    IF isna(domain_string) THEN <<>>
    ELSE NormalizeEach(split(domain_string, ","))

RECURSIVE StripEach(_)
StripEach(pieces) ==
    IF pieces = <<>> THEN <<>>
    ELSE LET address == strip(Head(pieces))
         IN  (IF address # <<>> THEN <<address>> ELSE <<>>)
             \o StripEach(Tail(pieces))

\* DomainNetworkBuilder._parse_crypto_list
_parse_crypto_list(crypto_string) ==
    IF isna(crypto_string) THEN <<>>
    ELSE StripEach(split(crypto_string, ","))

\* ------------------------------------------------------------------ inputs
\* Cells of the input frame.  Domains "a", "b", "c"; addresses "X" and "a".
Cell_srcA     == <<"H","T","T","P","S",":","/","/","W","W","W",".","a","/">>
Cell_srcB     == <<"b">>
Cell_srcEmpty == <<"h","t","t","p","s",":","/","/">>
Cell_look     == <<"a",","," ","B","/">>
Cell_same     == <<"c">>
Cell_crypto   == <<" ","X",","," ","a">>
ETH == <<"E","T","H">>
BTC == <<"B","T","C">>
TRON == <<"T","R","O","N">>

SourceCells == {Cell_srcA, Cell_srcB, Cell_srcEmpty}

\* Relationship cells of a row: lookalike_domain, same_ip_domain,
\* crypto_address, chain, discovery_method.
Payloads ==
    { [lookalike_domain |-> Cell_look, same_ip_domain |-> NaN,
       crypto_address |-> NaN, chain |-> NaN, discovery_method |-> "m1"],
      [lookalike_domain |-> NaN, same_ip_domain |-> Cell_same,
       crypto_address |-> NaN, chain |-> NaN, discovery_method |-> "m2"],
      [lookalike_domain |-> NaN, same_ip_domain |-> NaN,
       crypto_address |-> Cell_crypto, chain |-> ETH, discovery_method |-> "m1"],
      [lookalike_domain |-> Cell_look, same_ip_domain |-> NaN,
       crypto_address |-> Cell_crypto, chain |-> NaN, discovery_method |-> "m2"],
      [lookalike_domain |-> NaN, same_ip_domain |-> NaN,
       crypto_address |-> NaN, chain |-> NaN, discovery_method |-> "m1"] }

MkRow(src, p) ==
    [source_domain |-> src,
     lookalike_domain |-> p.lookalike_domain,
     same_ip_domain |-> p.same_ip_domain,
     crypto_address |-> p.crypto_address,
     chain |-> p.chain,
     discovery_method |-> p.discovery_method]

\* The rows a CSV file can hold: every source cell with every payload, one
\* row whose source_domain cell is missing, and one row with crypto
\* addresses only and a missing chain cell.
RowValues ==
    {MkRow(src, p) : src \in SourceCells, p \in Payloads}
    \cup {[source_domain |-> NaN, lookalike_domain |-> Cell_look,
           same_ip_domain |-> NaN, crypto_address |-> NaN, chain |-> NaN,
           discovery_method |-> "m1"],
          [source_domain |-> Cell_srcB, lookalike_domain |-> NaN,
           same_ip_domain |-> NaN, crypto_address |-> Cell_crypto, chain |-> NaN,
           discovery_method |-> "m1"]}

Frames == UNION {[1..n -> RowValues] : n \in 0..MaxRows}

Reverse(s) == [i \in 1..Len(s) |-> s[Len(s) + 1 - i]]

\* ------------------------------------------------------------ node registry
Absent == "<absent>"
AbsentSeq == <<"<absent>">>
S_address == <<"_","a","d","d","r","e","s","s">>
S_dots == <<".",".",".">>

\* NodeManager._initialize_node_styles (size, color, shape of each style)
node_styles(key) ==
    CASE key = "source_domain"    -> [size |-> 30, color |-> "#e74c3c", shape |-> "circle"]
      [] key = "lookalike_domain" -> [size |-> 25, color |-> "#3498db", shape |-> "circle"]
      [] key = "same_ip_domain"   -> [size |-> 25, color |-> "#1abc9c", shape |-> "circle"]
      [] key = "btc_address"      -> [size |-> 35, color |-> "#f39c12", shape |-> "square"]
      [] key = "eth_address"      -> [size |-> 30, color |-> "#9b59b6", shape |-> "circle"]
      [] key = "tron_address"     -> [size |-> 30, color |-> "#e74c3c", shape |-> "triangle"]

StyleKeys == {"source_domain", "lookalike_domain", "same_ip_domain",
              "btc_address", "eth_address", "tron_address"}

\* dict[key] = value on an insertion-ordered dict kept as the sequence of its
\* values: an existing key keeps its position, a new key goes last.
DictSet(nodes, node) ==
    IF \E i \in 1..Len(nodes) : nodes[i].id = node.id
    THEN [i \in 1..Len(nodes) |-> IF nodes[i].id = node.id THEN node ELSE nodes[i]]
    ELSE Append(nodes, node)

Keys(nodes) == {nodes[i].id : i \in 1..Len(nodes)}

\* NodeManager.get_node (only its truth value is used by the builder)
get_node(nodes, node_id) == node_id \in Keys(nodes)

NodeOf(nodes, node_id) == nodes[CHOOSE i \in 1..Len(nodes) : nodes[i].id = node_id]

\* Label of NodeManager.create_domain_node
DomainLabel(domain_id) ==
    LET label == remove(remove(remove(domain_id, S_https), S_http), S_www)
    IN  IF Len(label) > 25 THEN SubSeq(label, 1, 22) \o S_dots ELSE label

\* NodeManager.create_domain_node
create_domain_node(nodes, domain_id, domain_type, metadata) ==
    LET style == IF domain_type \in StyleKeys THEN node_styles(domain_type)
                 ELSE node_styles("source_domain")
    IN  DictSet(nodes,
            [id |-> domain_id, label |-> DomainLabel(domain_id), type |-> "domain",
             node_type |-> domain_type, size |-> style.size, color |-> style.color,
             shape |-> style.shape, domain_type |-> domain_type,
             url |-> metadata.url, chain |-> AbsentSeq,
             discovery_method |-> metadata.discovery_method])

\* f"{chain.lower()}_address" as a style key
CryptoNodeType(chain) ==
    LET k == lower(chain) \o S_address
    IN  CASE k = lower(BTC) \o S_address  -> "btc_address"
          [] k = lower(ETH) \o S_address  -> "eth_address"
          [] k = lower(TRON) \o S_address -> "tron_address"
          [] OTHER -> "other_address"

\* Label of NodeManager.create_crypto_node
CryptoLabel(address) ==
    IF Len(address) > 12
    THEN SubSeq(address, 1, 6) \o S_dots \o SubSeq(address, Len(address) - 5, Len(address))
    ELSE address

\* chain.lower() raises AttributeError when chain is no str (a NaN cell)
ChainRaises(chain) == isna(chain)

\* NodeManager.create_crypto_node; defined when ChainRaises(chain) is false
create_crypto_node(nodes, address, chain, metadata) ==
    LET node_type == CryptoNodeType(chain)
        style == IF node_type \in StyleKeys THEN node_styles(node_type)
                 ELSE node_styles("btc_address")
    IN  DictSet(nodes,
            [id |-> address, label |-> CryptoLabel(address), type |-> "crypto",
             node_type |-> node_type, size |-> style.size, color |-> style.color,
             shape |-> style.shape, domain_type |-> Absent,
             url |-> AbsentSeq, chain |-> chain,
             discovery_method |-> metadata.discovery_method])

\* NodeManager.get_node_statistics: by_type, a count per node_type present
get_node_statistics(nodes) ==
    [total_nodes |-> Len(nodes),
     by_type |-> [t \in {nodes[i].node_type : i \in 1..Len(nodes)} |->
                    Cardinality({i \in 1..Len(nodes) : nodes[i].node_type = t})]]

\* ------------------------------------------------------------ networkx graph
\* nx.Graph as its nodes in insertion order and one entry per unordered
\* pair of adjacent nodes, carrying the attribute dict of that pair.
EmptyGraph == [nodes |-> <<>>, edges |-> <<>>]

Range(s) == {s[i] : i \in 1..Len(s)}

GraphAddNode(g, n) ==
    IF n \in Range(g.nodes) THEN g ELSE [g EXCEPT !.nodes = Append(g.nodes, n)]

SamePair(e, u, v) == {e.u, e.v} = {u, v}

\* dict.update on the attributes of an existing pair: keys of the new edge
\* overwrite, a key the new edge lacks ("chain") keeps its old value.
UpdateAttrs(old, new) ==
    [new EXCEPT !.chain = IF new.chain = AbsentSeq THEN old.chain ELSE new.chain]

\* Mutant of add_edge: a MultiGraph, every call adds an edge of its own
add_edge_parallel(g, u, v, attrs) ==
    LET g1 == GraphAddNode(GraphAddNode(g, u), v)
    IN  [g1 EXCEPT !.edges = Append(g1.edges, [u |-> u, v |-> v, data |-> attrs])]

\* nx.Graph.add_edge(u, v, **attrs)
add_edge(g, u, v, attrs) ==
    LET g1 == GraphAddNode(GraphAddNode(g, u), v)
    IN  IF \E i \in 1..Len(g1.edges) : SamePair(g1.edges[i], u, v)
        THEN [g1 EXCEPT !.edges =
                [i \in 1..Len(g1.edges) |->
                    IF SamePair(g1.edges[i], u, v)
                    THEN [g1.edges[i] EXCEPT !.data = UpdateAttrs(g1.edges[i].data, attrs)]
                    ELSE g1.edges[i]]]
        ELSE [g1 EXCEPT !.edges = Append(g1.edges, [u |-> u, v |-> v, data |-> attrs])]

\* nx.density for an undirected graph, as the fraction <<numerator, denominator>>
density(g) ==
    LET n == Len(g.nodes)
        m == Len(g.edges)
    IN  IF m = 0 \/ n <= 1 THEN <<0, 1>> ELSE <<2 * m, n * (n - 1)>>

\* ------------------------------------------------------------------ builder
\* DomainNetworkBuilder._get_edge_color
_get_edge_color(edge_type) ==
    CASE edge_type = "lookalike_domain" -> "#3498db"
      [] edge_type = "same_ip_domain"   -> "#f39c12"
      [] edge_type = "domain_to_crypto" -> "#e74c3c"
      [] OTHER -> "#95a5a6"

\* row.get("chain", "BTC"): the default applies when the frame has no chain
\* column (the cell is then AbsentSeq); a missing cell of an existing column
\* is returned as it is (NaN).
RowGetChain(row) == IF row.chain = AbsentSeq THEN BTC ELSE row.chain

\* DomainNetworkBuilder.clean_data: dropna(subset=["source_domain"]), then
\* dropna(subset=key_columns, how="all")
DropMissingSource(frame) ==
    SelectSeq(frame, LAMBDA r : notna(r.source_domain))

\* Mutant of DropAllMissing: how="any" in place of how="all"
DropAnyMissing(frame) ==
    SelectSeq(frame, LAMBDA r : ~(isna(r.lookalike_domain) \/ isna(r.same_ip_domain)
                                  \/ isna(r.crypto_address)))

DropAllMissing(frame) ==
    SelectSeq(frame, LAMBDA r : ~(isna(r.lookalike_domain) /\ isna(r.same_ip_domain)
                                  /\ isna(r.crypto_address)))

clean_data(frame) == DropAllMissing(DropMissingSource(frame))

\* Mutant of _create_or_get_domain_node: the node is created without looking
\* it up first, so an existing node is overwritten
_create_domain_node_always(nodes, domain, domain_type, metadata) ==
    create_domain_node(nodes, domain, domain_type, metadata)

\* DomainNetworkBuilder._create_or_get_domain_node
_create_or_get_domain_node(nodes, domain, domain_type, metadata) ==
    IF get_node(nodes, domain) THEN nodes
    ELSE create_domain_node(nodes, domain, domain_type, metadata)

\* DomainNetworkBuilder._create_or_get_crypto_node: the registry after the
\* call, and whether the call raised
_create_or_get_crypto_node(nodes, address, chain, metadata) ==
    IF get_node(nodes, address) THEN [raised |-> FALSE, nodes |-> nodes]
    ELSE IF ChainRaises(chain) THEN [raised |-> TRUE, nodes |-> nodes]
    ELSE [raised |-> FALSE, nodes |-> create_crypto_node(nodes, address, chain, metadata)]

\* The builder's graph state while one row is processed.
\* DomainNetworkBuilder._create_domain_relationship
_create_domain_relationship(st, source_domain, target_domain0, relationship_type, row) ==
    LET target_domain == _normalize_domain(target_domain0)
    IN  IF target_domain = <<>> \/ target_domain = source_domain THEN st
        ELSE LET edge == [source |-> source_domain, target |-> target_domain,
                          type |-> relationship_type,
                          discovery_method |-> row.discovery_method,
                          color |-> _get_edge_color(relationship_type),
                          chain |-> AbsentSeq]
             IN  [st EXCEPT
                    !.nodes = _create_or_get_domain_node(st.nodes, target_domain,
                                  relationship_type,
                                  [url |-> target_domain,
                                   discovery_method |-> row.discovery_method]),
                    !.edges = Append(st.edges, edge),
                    !.graph = add_edge(st.graph, source_domain, target_domain, edge)]

\* DomainNetworkBuilder._create_crypto_relationship
_create_crypto_relationship(st, source_domain, crypto_address, chain, row) ==
    IF crypto_address = <<>> THEN st
    ELSE LET r == _create_or_get_crypto_node(st.nodes, crypto_address, chain,
                      [discovery_method |-> row.discovery_method])
             edge == [source |-> source_domain, target |-> crypto_address,
                      type |-> "domain_to_crypto",
                      discovery_method |-> row.discovery_method,
                      color |-> _get_edge_color("domain_to_crypto"),
                      chain |-> chain]
         IN  IF r.raised THEN [st EXCEPT !.raised = TRUE]
             ELSE [st EXCEPT
                     !.nodes = r.nodes,
                     !.edges = Append(st.edges, edge),
                     !.graph = add_edge(st.graph, source_domain, crypto_address, edge)]

\* for domain in ...: self._create_domain_relationship(...)
RECURSIVE DomainLoop(_, _, _, _, _)
DomainLoop(st, source_domain, domains, relationship_type, row) ==
    IF domains = <<>> THEN st
    ELSE DomainLoop(
            _create_domain_relationship(st, source_domain, Head(domains),
                                        relationship_type, row),
            source_domain, Tail(domains), relationship_type, row)

\* for address in crypto_addresses: ...; an exception ends the loop
RECURSIVE CryptoLoop(_, _, _, _, _)
CryptoLoop(st, source_domain, addresses, chain, row) ==
    IF addresses = <<>> \/ st.raised THEN st
    ELSE CryptoLoop(
            _create_crypto_relationship(st, source_domain, Head(addresses), chain, row),
            source_domain, Tail(addresses), chain, row)

\* Mutant of _process_row: the crypto addresses are handled before the two
\* domain lists, so a raising address leaves the domain lists unprocessed
_process_row_crypto_first(st, row) ==
    LET source_domain == _normalize_domain(row.source_domain)
    IN  IF source_domain = <<>> THEN st
        ELSE LET s1 == [st EXCEPT !.nodes =
                          _create_or_get_domain_node(st.nodes, source_domain,
                              "source_domain",
                              [url |-> source_domain,
                               discovery_method |-> row.discovery_method])]
                 s2 == IF notna(row.crypto_address)
                       THEN CryptoLoop(s1, source_domain,
                                _parse_crypto_list(row.crypto_address),
                                RowGetChain(row), row)
                       ELSE s1
                 s3 == IF ~s2.raised /\ notna(row.lookalike_domain)
                       THEN DomainLoop(s2, source_domain,
                                _parse_domain_list(row.lookalike_domain),
                                "lookalike_domain", row)
                       ELSE s2
             IN  IF ~s3.raised /\ notna(row.same_ip_domain)
                 THEN DomainLoop(s3, source_domain,
                          _parse_domain_list(row.same_ip_domain),
                          "same_ip_domain", row)
                 ELSE s3

\* DomainNetworkBuilder._process_row on the graph state st (st.raised false)
_process_row(st, row) ==
    LET source_domain == _normalize_domain(row.source_domain)
    IN  IF source_domain = <<>> THEN st
        ELSE LET s1 == [st EXCEPT !.nodes =
                          _create_or_get_domain_node(st.nodes, source_domain,
                              "source_domain",
                              [url |-> source_domain,
                               discovery_method |-> row.discovery_method])]
                 s2 == IF notna(row.lookalike_domain)
                       THEN DomainLoop(s1, source_domain,
                                _parse_domain_list(row.lookalike_domain),
                                "lookalike_domain", row)
                       ELSE s1
                 s3 == IF notna(row.same_ip_domain)
                       THEN DomainLoop(s2, source_domain,
                                _parse_domain_list(row.same_ip_domain),
                                "same_ip_domain", row)
                       ELSE s2
             IN  IF notna(row.crypto_address)
                 THEN CryptoLoop(s3, source_domain,
                          _parse_crypto_list(row.crypto_address),
                          RowGetChain(row), row)
                 ELSE s3

\* Mutant of RowIteration: processed_rows is incremented for every row, also
\* for a row that raised
RowIterationCountsBoth(b, row) ==
    LET r == _process_row([nodes |-> b.nodes, edges |-> b.edges, graph |-> b.graph,
                           raised |-> FALSE], row)
    IN  [nodes |-> r.nodes, edges |-> r.edges, graph |-> r.graph,
         processed_rows |-> b.processed_rows + 1,
         skipped_rows |-> IF r.raised THEN b.skipped_rows + 1 ELSE b.skipped_rows]

\* One iteration of the row loop of build_graph on the builder state b:
\* try: _process_row; processed_rows += 1  except Exception: skipped_rows += 1
RowIteration(b, row) ==
    LET r == _process_row([nodes |-> b.nodes, edges |-> b.edges, graph |-> b.graph,
                           raised |-> FALSE], row)
    IN  [nodes |-> r.nodes, edges |-> r.edges, graph |-> r.graph,
         processed_rows |-> IF r.raised THEN b.processed_rows ELSE b.processed_rows + 1,
         skipped_rows |-> IF r.raised THEN b.skipped_rows + 1 ELSE b.skipped_rows]

\* build_graph, lines 61-66: the state after "Clear previous data"
ClearedBuilder ==
    [nodes |-> <<>>, edges |-> <<>>, graph |-> EmptyGraph,
     processed_rows |-> 0, skipped_rows |-> 0]

\* DomainNetworkBuilder._add_node_attributes_to_graph
\* (graph.add_node for every node of the registry)
RECURSIVE AddNodes(_, _)
AddNodes(g, nodes) ==
    IF nodes = <<>> THEN g ELSE AddNodes(GraphAddNode(g, Head(nodes).id), Tail(nodes))

\* Mutant of _add_node_attributes_to_graph: no node is added to the graph
_skip_node_attributes(b) == b

_add_node_attributes_to_graph(b) == [b EXCEPT !.graph = AddNodes(b.graph, b.nodes)]

\* Mutant of _generate_statistics: "edges" counts the edges of the networkx
\* graph in place of len(self.edges)
_generate_statistics_graph_edges(b) ==
    LET node_stats == get_node_statistics(b.nodes)
    IN  [nodes |-> node_stats.total_nodes,
         edges |-> Len(b.graph.edges),
         processed_rows |-> b.processed_rows,
         skipped_rows |-> b.skipped_rows,
         node_breakdown |-> node_stats.by_type,
         edge_breakdown |-> [t \in {b.edges[i].type : i \in 1..Len(b.edges)} |->
                               Cardinality({i \in 1..Len(b.edges) : b.edges[i].type = t})],
         network_density |-> IF Len(b.graph.nodes) > 0 THEN density(b.graph)
                             ELSE <<0, 1>>]

\* DomainNetworkBuilder._generate_statistics
_generate_statistics(b) ==
    LET node_stats == get_node_statistics(b.nodes)
    IN  [nodes |-> node_stats.total_nodes,
         edges |-> Len(b.edges),
         processed_rows |-> b.processed_rows,
         skipped_rows |-> b.skipped_rows,
         node_breakdown |-> node_stats.by_type,
         edge_breakdown |-> [t \in {b.edges[i].type : i \in 1..Len(b.edges)} |->
                               Cardinality({i \in 1..Len(b.edges) : b.edges[i].type = t})],
         network_density |-> IF Len(b.graph.nodes) > 0 THEN density(b.graph)
                             ELSE <<0, 1>>]

\* The value build_graph returns
Snapshot(b) ==
    [nodes |-> b.nodes, links |-> b.edges, statistics |-> _generate_statistics(b)]

\* -------------------------------------------------------------------- state
VARIABLES
    pc,              \* position of the run (main.py, build_graph)
    rawDf,           \* the frame load_csv_data returned
    df,              \* the frame clean_data returned, handed to build_graph
    idx,             \* rows of df consumed by the loop of build_graph
    nodes,           \* NodeManager.nodes, in insertion order
    edges,           \* DomainNetworkBuilder.edges
    graph,           \* DomainNetworkBuilder.graph
    processed_rows,  \* DomainNetworkBuilder.processed_rows
    skipped_rows,    \* DomainNetworkBuilder.skipped_rows
    result,          \* <<snapshot>> once build_graph has returned, else <<>>
    builds,          \* calls of build_graph started on this builder
    json_out,        \* <<data>> once export_json has written the JSON file, else <<>>
    graph_data,      \* node-link data handed to an HTML generator
    unified_out,     \* <<data>> UnifiedHTMLGenerator.create_html renders, else <<>>
    optimized_out,   \* <<data>> OptimizedHTMLGenerator.create_html renders, else <<>>
    norm,            \* a raw domain string and the identity keys computed from it
    enr_call,        \* the enricher function the caller is in, "none" between calls
    enr_domains,     \* the domains the current enricher call was given
    enr_index,       \* domains of enr_domains the current call has finished
    ip_address,      \* <<value>> get_domain_ip_from_urlscan returned for the current domain
    same_ip_mapping, \* same_ip_mapping of find_same_ip_domains_batch
    enr_result,      \* <<value>> the last enricher call returned, <<>> while one runs
    clock,           \* seconds elapsed (time.sleep advances it)
    requests,        \* HTTP requests of the current call, after the last one before it
    lookalike_out    \* <<value>> LookalikeDomains.find_lookalike_domains returned, else <<>>

builderVars == <<rawDf, df, idx, nodes, edges, graph, processed_rows, skipped_rows,
                 result, builds>>
selectorVars == <<graph_data, unified_out, optimized_out>>
normVars == <<norm>>
enricherVars == <<enr_call, enr_domains, enr_index, ip_address, same_ip_mapping,
                  enr_result, clock, requests, lookalike_out>>
helperVars == <<normVars, enricherVars>>
vars == <<pc, builderVars, selectorVars, json_out, helperVars>>

\* No string under normalization
NormIdle == norm = [d |-> <<>>, plain |-> <<>>, wrapped |-> <<>>, twice |-> <<>>,
                    as_source |-> <<>>, as_entry |-> <<>>]

\* A fresh enricher: no call made, no request sent
EnricherIdle ==
    /\ enr_call = "none"
    /\ enr_domains = <<>>
    /\ enr_index = 0
    /\ ip_address = <<>>
    /\ same_ip_mapping = <<>>
    /\ enr_result = <<>>
    /\ clock = 0
    /\ requests = <<>>
    /\ lookalike_out = <<>>

Builder ==
    [nodes |-> nodes, edges |-> edges, graph |-> graph,
     processed_rows |-> processed_rows, skipped_rows |-> skipped_rows]

\* DomainNetworkBuilder.__init__ and NodeManager.__init__
Init ==
    /\ pc = "start"
    /\ rawDf = <<>>
    /\ df = <<>>
    /\ idx = 0
    /\ nodes = <<>>
    /\ edges = <<>>
    /\ graph = EmptyGraph
    /\ processed_rows = 0
    /\ skipped_rows = 0
    /\ result = <<>>
    /\ builds = 0
    /\ json_out = <<>>
    /\ graph_data = [nodes |-> <<>>, links |-> <<>>]
    /\ unified_out = <<>>
    /\ optimized_out = <<>>
    /\ NormIdle
    /\ EnricherIdle

\* A frame read from a file without a chain column: no row has the key.
WithoutChainColumn(frame) ==
    [i \in 1..Len(frame) |-> [frame[i] EXCEPT !.chain = AbsentSeq]]

\* DomainNetworkBuilder.load_csv_data (main.py step 1)
LoadCsv ==
    /\ pc = "start"
    /\ \E frame \in Frames, hasChainColumn \in BOOLEAN :
          rawDf' = IF hasChainColumn THEN frame ELSE WithoutChainColumn(frame)
    /\ pc' = "loaded"
    /\ UNCHANGED <<df, idx, nodes, edges, graph, processed_rows, skipped_rows,
                   result, builds>>
    /\ UNCHANGED <<selectorVars, json_out, helperVars>>

\* Frames loaded for a further round on the same builder: the same rows, the
\* rows in reverse order, or the rows without the first.
ReloadFrames(frame) ==
    {frame, Reverse(frame)} \cup (IF frame = <<>> THEN {} ELSE {Tail(frame)})

\* load_csv_data called again on a builder that has already built a graph
Reload ==
    /\ pc = "done"
    /\ builds < MaxBuilds
    /\ \E frame \in ReloadFrames(rawDf) : rawDf' = frame
    /\ pc' = "loaded"
    /\ UNCHANGED <<df, idx, nodes, edges, graph, processed_rows, skipped_rows,
                   result, builds>>
    /\ UNCHANGED <<selectorVars, json_out, helperVars>>

\* DomainNetworkBuilder.clean_data
CleanData ==
    /\ pc = "loaded"
    /\ df' = clean_data(rawDf)
    /\ pc' = "cleaned"
    /\ UNCHANGED <<rawDf, idx, nodes, edges, graph, processed_rows, skipped_rows,
                   result, builds>>
    /\ UNCHANGED <<selectorVars, json_out, helperVars>>

\* main: if len(clean_df) == 0: sys.exit(1)
ExitNoData ==
    /\ pc = "cleaned"
    /\ Len(df) = 0
    /\ pc' = "exit_failure"
    /\ UNCHANGED <<rawDf, df, idx, nodes, edges, graph, processed_rows,
                   skipped_rows, result, builds>>
    /\ UNCHANGED <<selectorVars, json_out, helperVars>>

\* Mutant of BuildGraphStart: main does not test len(clean_df) == 0 before
\* it calls build_graph
BuildGraphStartOnEmpty ==
    /\ pc = "cleaned"
    /\ nodes' = ClearedBuilder.nodes
    /\ edges' = ClearedBuilder.edges
    /\ graph' = ClearedBuilder.graph
    /\ processed_rows' = ClearedBuilder.processed_rows
    /\ skipped_rows' = ClearedBuilder.skipped_rows
    /\ idx' = 0
    /\ builds' = builds + 1
    /\ pc' = "loop"
    /\ UNCHANGED <<rawDf, df, result>>
    /\ UNCHANGED <<selectorVars, json_out, helperVars>>

\* Mutant of BuildGraphStart: self.edges = [] is left out
BuildGraphStartKeepsEdges ==
    /\ pc = "cleaned"
    /\ Len(df) # 0
    /\ nodes' = ClearedBuilder.nodes
    /\ graph' = ClearedBuilder.graph
    /\ processed_rows' = ClearedBuilder.processed_rows
    /\ skipped_rows' = ClearedBuilder.skipped_rows
    /\ idx' = 0
    /\ builds' = builds + 1
    /\ pc' = "loop"
    /\ UNCHANGED <<rawDf, df, result, edges>>
    /\ UNCHANGED <<selectorVars, json_out, helperVars>>

\* build_graph, "Clear previous data"
BuildGraphStart ==
    /\ pc = "cleaned"
    /\ Len(df) # 0
    /\ nodes' = ClearedBuilder.nodes
    /\ edges' = ClearedBuilder.edges
    /\ graph' = ClearedBuilder.graph
    /\ processed_rows' = ClearedBuilder.processed_rows
    /\ skipped_rows' = ClearedBuilder.skipped_rows
    /\ idx' = 0
    /\ builds' = builds + 1
    /\ pc' = "loop"
    /\ UNCHANGED <<rawDf, df, result>>
    /\ UNCHANGED <<selectorVars, json_out, helperVars>>

\* Mutant of BuildGraphIter: no try/except around _process_row, so an
\* exception leaves build_graph and main exits with a failure status
BuildGraphIterNoCatch ==
    /\ pc = "loop"
    /\ idx < Len(df)
    /\ \E r \in {_process_row([nodes |-> nodes, edges |-> edges, graph |-> graph,
                               raised |-> FALSE], df[idx + 1])} :
           /\ nodes' = r.nodes
           /\ edges' = r.edges
           /\ graph' = r.graph
           /\ processed_rows' = IF r.raised THEN processed_rows ELSE processed_rows + 1
           /\ pc' = IF r.raised THEN "exit_failure" ELSE pc
    /\ idx' = idx + 1
    /\ UNCHANGED <<rawDf, df, result, builds, skipped_rows>>
    /\ UNCHANGED <<selectorVars, json_out, helperVars>>

\* build_graph, one iteration of "for index, row in df.iterrows()"
BuildGraphIter ==
    /\ pc = "loop"
    /\ idx < Len(df)
    /\ \E b \in {RowIteration(Builder, df[idx + 1])} :
           /\ nodes' = b.nodes
           /\ edges' = b.edges
           /\ graph' = b.graph
           /\ processed_rows' = b.processed_rows
           /\ skipped_rows' = b.skipped_rows
    /\ idx' = idx + 1
    /\ UNCHANGED <<pc, rawDf, df, result, builds>>
    /\ UNCHANGED <<selectorVars, json_out, helperVars>>

\* build_graph after the loop: node attributes, statistics, return
BuildGraphFinish ==
    /\ pc = "loop"
    /\ idx = Len(df)
    /\ \E b \in {_add_node_attributes_to_graph(Builder)} :
           /\ graph' = b.graph
           /\ result' = <<Snapshot(b)>>
    /\ pc' = "done"
    /\ UNCHANGED <<rawDf, df, idx, nodes, edges, processed_rows, skipped_rows, builds>>
    /\ UNCHANGED <<selectorVars, json_out, helperVars>>

\* build_graph(rows) on a builder in state b, as one function of the rows
RECURSIVE RunRows(_, _)
RunRows(b, rows) ==
    IF rows = <<>> THEN b ELSE RunRows(RowIteration(b, Head(rows)), Tail(rows))

build_graph(rows) == _add_node_attributes_to_graph(RunRows(ClearedBuilder, rows))

TypeOK ==
    /\ pc \in {"start", "loaded", "cleaned", "exit_failure", "loop", "done",
              "exported", "written", "sel_start", "sel_loaded", "norm",
              "enr_idle", "enr_ip_request", "enr_ip_returned", "enr_raised"}
    /\ idx \in Nat /\ (pc = "loop" => idx <= Len(df))
    /\ builds \in 0..MaxBuilds
    /\ Len(result) <= 1

\* ----------------------------------------------------------------- selector
\* Node-link data (json_graph.node_link_data) with node ids 1..N.  A node
\* carries the attributes the selectors read: type, node_type, domain_type
\* (a crypto node has no domain_type).
GenNode(i, kind) ==
    IF kind = "crypto"
    THEN [id |-> i, type |-> "crypto", node_type |-> "btc_address", domain_type |-> Absent]
    ELSE [id |-> i, type |-> "domain", node_type |-> kind, domain_type |-> kind]

KindOrders ==
    { <<"source_domain", "crypto", "lookalike_domain", "same_ip_domain">>,
      <<"same_ip_domain", "lookalike_domain", "crypto", "source_domain">> }

\* Numbers of nodes of each kind, on both sides of the selectors' limits.
KindCounts ==
    [source_domain : {0, 2}, crypto : {0, 2, 501}, lookalike_domain : {0, 2, 101},
     same_ip_domain : {0, 998, 999, 1500, 1501, 2000, 2001, 2400, 3001}]

\* Nodes in blocks of one kind each, in the given order of kinds
GenNodes(count, order) ==
    LET c1 == count[order[1]]
        c2 == c1 + count[order[2]]
        c3 == c2 + count[order[3]]
        c4 == c3 + count[order[4]]
    IN  [i \in 1..c4 |->
            GenNode(i, IF i <= c1 THEN order[1]
                       ELSE IF i <= c2 THEN order[2]
                       ELSE IF i <= c3 THEN order[3]
                       ELSE order[4])]

\* The first, second and last node of each block
ProbeIds(count, order) ==
    LET c1 == count[order[1]]
        c2 == c1 + count[order[2]]
        c3 == c2 + count[order[3]]
        c4 == c3 + count[order[4]]
        block(lo, hi) == {lo + 1, lo + 2, hi} \cap (lo + 1 .. hi)
    IN  block(0, c1) \cup block(c1, c2) \cup block(c2, c3) \cup block(c3, c4)

RECURSIVE SortedSeq(_)
SortedSeq(S) ==
    IF S = {} THEN <<>> ELSE <<SetMin(S)>> \o SortedSeq(S \ {SetMin(S)})

\* Links between the probe nodes: every ordered pair, or every pair once
GenLinks(probes, bothWays) ==
    LET p == SortedSeq(probes)
        n == Len(p)
        all == [k \in 1..(n * n) |->
                  [source |-> p[((k - 1) \div n) + 1], target |-> p[((k - 1) % n) + 1]]]
    IN  SelectSeq(all, LAMBDA l : IF bothWays THEN l.source # l.target
                                  ELSE l.source < l.target)

\* s[::step]
Stride(s, step) == [i \in 1..((Len(s) + step - 1) \div step) |-> s[(i - 1) * step + 1]]

\* s[:k]
Prefix(s, k) == SubSeq(s, 1, IF k < Len(s) THEN k ELSE Len(s))

IdsOf(ns) == {ns[i].id : i \in 1..Len(ns)}

\* node.get("domain_type") or node.get("node_type", "")
DomainTypeOrNodeType(node) ==
    IF node.domain_type # Absent /\ node.domain_type # "" THEN node.domain_type
    ELSE node.node_type

\* Mutant of IsPriority: crypto nodes are not priority nodes
IsPriorityNoCrypto(node) ==
    \/ DomainTypeOrNodeType(node) = "source_domain"
    \/ DomainTypeOrNodeType(node) = "lookalike_domain"

\* Mutant of IsPriority: lookalike domains are not priority nodes
IsPriorityNoLookalike(node) ==
    \/ DomainTypeOrNodeType(node) = "source_domain"
    \/ node.type = "crypto"

IsPriority(node) ==
    \/ DomainTypeOrNodeType(node) = "source_domain"
    \/ node.type = "crypto"
    \/ DomainTypeOrNodeType(node) = "lookalike_domain"

\* Mutant of _smart_optimize_network: a link is kept when either endpoint
\* is selected
_smart_optimize_network_or(data) ==
    LET priority_nodes == SelectSeq(data.nodes, IsPriority)
        other_nodes == SelectSeq(data.nodes, LAMBDA n : ~IsPriority(n))
        same_ip_nodes == SelectSeq(other_nodes,
                                   LAMBDA n : n.domain_type = "same_ip_domain")
        target_same_ip == IF Len(same_ip_nodes) > 2000 THEN 1000 ELSE 1200
        sample_rate == IF Len(same_ip_nodes) \div target_same_ip > 1
                       THEN Len(same_ip_nodes) \div target_same_ip ELSE 1
        selected_nodes == IF Len(other_nodes) > 1500
                          THEN priority_nodes \o Stride(same_ip_nodes, sample_rate)
                          ELSE priority_nodes \o other_nodes
        node_ids == IdsOf(selected_nodes)
    IN  [nodes |-> selected_nodes,
         links |-> SelectSeq(data.links,
                      LAMBDA l : l.source \in node_ids \/ l.target \in node_ids)]

\* Mutant of _smart_optimize_network: within the sub-threshold the other
\* nodes are left out
_smart_optimize_network_priority_only(data) ==
    LET priority_nodes == SelectSeq(data.nodes, IsPriority)
        other_nodes == SelectSeq(data.nodes, LAMBDA n : ~IsPriority(n))
        same_ip_nodes == SelectSeq(other_nodes,
                                   LAMBDA n : n.domain_type = "same_ip_domain")
        target_same_ip == IF Len(same_ip_nodes) > 2000 THEN 1000 ELSE 1200
        sample_rate == IF Len(same_ip_nodes) \div target_same_ip > 1
                       THEN Len(same_ip_nodes) \div target_same_ip ELSE 1
        selected_nodes == IF Len(other_nodes) > 1500
                          THEN priority_nodes \o Stride(same_ip_nodes, sample_rate)
                          ELSE priority_nodes
        node_ids == IdsOf(selected_nodes)
    IN  [nodes |-> selected_nodes,
         links |-> SelectSeq(data.links,
                      LAMBDA l : l.source \in node_ids /\ l.target \in node_ids)]

\* UnifiedHTMLGenerator._smart_optimize_network
_smart_optimize_network(data) ==
    LET priority_nodes == SelectSeq(data.nodes, IsPriority)
        other_nodes == SelectSeq(data.nodes, LAMBDA n : ~IsPriority(n))
        same_ip_nodes == SelectSeq(other_nodes,
                                   LAMBDA n : n.domain_type = "same_ip_domain")
        target_same_ip == IF Len(same_ip_nodes) > 2000 THEN 1000 ELSE 1200
        sample_rate == IF Len(same_ip_nodes) \div target_same_ip > 1
                       THEN Len(same_ip_nodes) \div target_same_ip ELSE 1
        selected_nodes == IF Len(other_nodes) > 1500
                          THEN priority_nodes \o Stride(same_ip_nodes, sample_rate)
                          ELSE priority_nodes \o other_nodes
        node_ids == IdsOf(selected_nodes)
    IN  [nodes |-> selected_nodes,
         links |-> SelectSeq(data.links,
                      LAMBDA l : l.source \in node_ids /\ l.target \in node_ids)]

\* Mutant of UnifiedOptimizedData: the threshold is one node higher
UnifiedOptimizedDataAbove1001(data) ==
    IF Len(data.nodes) > 1001 THEN _smart_optimize_network(data) ELSE data

\* UnifiedHTMLGenerator.create_html: the data it renders
UnifiedOptimizedData(data) ==
    IF Len(data.nodes) > 1000 THEN _smart_optimize_network(data) ELSE data

\* OptimizedHTMLGenerator._optimize_for_large_networks
_optimize_for_large_networks(data) ==
    IF Len(data.nodes) > 1000
    THEN LET priority_nodes == SelectSeq(data.nodes, LAMBDA n : n.domain_type = "source")
             other_nodes == SelectSeq(data.nodes, LAMBDA n : n.domain_type # "source")
             crypto_nodes ==
                 Prefix(SelectSeq(other_nodes, LAMBDA n : n.type = "crypto"), 500)
             lookalike_nodes ==
                 Prefix(SelectSeq(other_nodes, LAMBDA n : n.domain_type = "lookalike"), 100)
             same_ip_nodes ==
                 Prefix(SelectSeq(other_nodes, LAMBDA n : n.domain_type = "same_ip"), 1500)
             selected_nodes ==
                 IF Len(other_nodes) > 2000
                 THEN priority_nodes \o crypto_nodes \o lookalike_nodes \o same_ip_nodes
                 ELSE priority_nodes \o other_nodes
             node_ids == IdsOf(selected_nodes)
         IN  [nodes |-> selected_nodes,
              links |-> SelectSeq(data.links,
                           LAMBDA l : l.source \in node_ids /\ l.target \in node_ids)]
    ELSE data

\* --------------------------------------------------------------- main, end
\* json_graph.node_link_data(graph) for the builder's graph: the nodes in
\* the graph's order with the attributes _add_node_attributes_to_graph gave
\* them, one link per adjacent pair with its attributes, source and target
\* set to the pair.
node_link_data(g, registry) ==
    [nodes |-> [i \in 1..Len(g.nodes) |-> NodeOf(registry, g.nodes[i])],
     links |-> [i \in 1..Len(g.edges) |->
                  [g.edges[i].data EXCEPT !.source = g.edges[i].u,
                                          !.target = g.edges[i].v]]]

\* main, step 3a: builder.export_json(args.json), taken when --json is given
ExportJson ==
    /\ pc = "done"
    /\ json_out' = <<[nodes |-> nodes, links |-> edges,
                      statistics |-> _generate_statistics(Builder)]>>
    /\ pc' = "exported"
    /\ UNCHANGED <<builderVars, selectorVars, helperVars>>

\* main, step 4: UnifiedHTMLGenerator.create_html on the builder's graph, and
\* the write of the HTML file
WriteHtml ==
    /\ pc \in {"done", "exported"}
    /\ \E data \in {node_link_data(graph, nodes)} :
          /\ graph_data' = data
          /\ unified_out' = <<UnifiedOptimizedData(data)>>
    /\ pc' = "written"
    /\ UNCHANGED <<builderVars, json_out, optimized_out, helperVars>>

Next ==
    \/ LoadCsv
    \/ Reload
    \/ CleanData
    \/ ExitNoData
    \/ BuildGraphStart
    \/ BuildGraphIter
    \/ BuildGraphFinish
    \/ ExportJson
    \/ WriteHtml

Spec == Init /\ [][Next]_vars

\* The generators, each applied once to node-link data of any size.
SelInit ==
    /\ pc = "sel_start"
    /\ rawDf = <<>>
    /\ df = <<>>
    /\ idx = 0
    /\ nodes = <<>>
    /\ edges = <<>>
    /\ graph = EmptyGraph
    /\ processed_rows = 0
    /\ skipped_rows = 0
    /\ result = <<>>
    /\ builds = 0
    /\ json_out = <<>>
    /\ graph_data = [nodes |-> <<>>, links |-> <<>>]
    /\ unified_out = <<>>
    /\ optimized_out = <<>>
    /\ NormIdle
    /\ EnricherIdle

\* json_graph.node_link_data(graph) of create_html
LoadGraphData ==
    /\ pc = "sel_start"
    /\ \E count \in KindCounts, order \in KindOrders, bothWays \in BOOLEAN :
          graph_data' = [nodes |-> GenNodes(count, order),
                         links |-> GenLinks(ProbeIds(count, order), bothWays)]
    /\ pc' = "sel_loaded"
    /\ UNCHANGED <<builderVars, json_out, unified_out, optimized_out, helperVars>>

\* UnifiedHTMLGenerator.create_html
UnifiedCreateHtml ==
    /\ pc = "sel_loaded"
    /\ unified_out = <<>>
    /\ unified_out' = <<UnifiedOptimizedData(graph_data)>>
    /\ UNCHANGED <<pc, builderVars, json_out, graph_data, optimized_out, helperVars>>

\* OptimizedHTMLGenerator.create_html
OptimizedCreateHtml ==
    /\ pc = "sel_loaded"
    /\ optimized_out = <<>>
    /\ optimized_out' = <<_optimize_for_large_networks(graph_data)>>
    /\ UNCHANGED <<pc, builderVars, json_out, graph_data, unified_out, helperVars>>

SelNext ==
    \/ LoadGraphData
    \/ UnifiedCreateHtml
    \/ OptimizedCreateHtml

SelSpec == SelInit /\ [][SelNext]_vars

\* ---------------------------------------------------------------------
\* Identity resolution of one raw domain string
\* (graph_builder.py: _normalize_domain, _parse_domain_list, _process_row,
\* _create_domain_relationship)

\* Longest raw string, in tokens
MaxTokens == 3

\* Pieces raw domain strings are made of
NormTokens ==
    { <<"w", "w", "w", ".">>,
      <<"h", "t", "t", "p", "s", ":", "/", "/">>,
      <<"H", "T", "T", "P", ":", "/", "/">>,
      <<" ">>,
      <<"/">>,
      <<"a">> }

RECURSIVE Concat(_)
Concat(parts) == IF parts = <<>> THEN <<>> ELSE Head(parts) \o Concat(Tail(parts))

\* The raw strings: one to MaxTokens pieces in a row
DomainStrings ==
    {Concat(parts) : parts \in UNION {[1..k -> NormTokens] : k \in 1..MaxTokens}}

\* "HTTPS://WWW." + d + "/"
S_HTTPS_WWW == <<"H", "T", "T", "P", "S", ":", "/", "/", "W", "W", "W", ".">>
Wrap(d) == S_HTTPS_WWW \o d \o <<"/">>

\* A row that has only a source_domain cell, and one that has the fixed
\* source "b" and a lookalike_domain cell
SourceOnlyRow(d) ==
    [source_domain |-> d, lookalike_domain |-> NaN, same_ip_domain |-> NaN,
     crypto_address |-> NaN, chain |-> AbsentSeq, discovery_method |-> "m1"]
LookalikeRow(d) ==
    [source_domain |-> Cell_srcB, lookalike_domain |-> d, same_ip_domain |-> NaN,
     crypto_address |-> NaN, chain |-> AbsentSeq, discovery_method |-> "m1"]

ClearedState == [nodes |-> <<>>, edges |-> <<>>, graph |-> EmptyGraph, raised |-> FALSE]

\* The key _process_row gives the source node of a row whose source_domain
\* cell is d (the empty string when the row makes no node)
SourceIdentity(d) ==
    LET ns == _process_row(ClearedState, SourceOnlyRow(d)).nodes
    IN  IF ns = <<>> THEN <<>> ELSE ns[1].id

\* The key _process_row gives the node of the lookalike_domain entry d of a
\* row (the empty string when the entry makes no node)
EntryIdentity(d) ==
    LET ns == _process_row(ClearedState, LookalikeRow(d)).nodes
    IN  IF Len(ns) < 2 THEN <<>> ELSE ns[2].id

\* Builder and generators untouched
PipelineIdle ==
    /\ rawDf = <<>>
    /\ df = <<>>
    /\ idx = 0
    /\ nodes = <<>>
    /\ edges = <<>>
    /\ graph = EmptyGraph
    /\ processed_rows = 0
    /\ skipped_rows = 0
    /\ result = <<>>
    /\ builds = 0
    /\ json_out = <<>>
    /\ graph_data = [nodes |-> <<>>, links |-> <<>>]
    /\ unified_out = <<>>
    /\ optimized_out = <<>>

NormInit ==
    /\ pc = "norm"
    /\ PipelineIdle
    /\ EnricherIdle
    /\ \E d \in DomainStrings :
          norm = [d |-> d, plain |-> <<>>, wrapped |-> <<>>, twice |-> <<>>,
                  as_source |-> <<>>, as_entry |-> <<>>]

NormUnchanged == UNCHANGED <<pc, builderVars, selectorVars, json_out, enricherVars>>

\* _normalize_domain(d)
NormalizePlain ==
    /\ pc = "norm"
    /\ norm.plain = <<>>
    /\ norm' = [norm EXCEPT !.plain = <<_normalize_domain(norm.d)>>]
    /\ NormUnchanged

\* _normalize_domain("HTTPS://WWW." + d + "/")
NormalizeWrapped ==
    /\ pc = "norm"
    /\ norm.wrapped = <<>>
    /\ norm' = [norm EXCEPT !.wrapped = <<_normalize_domain(Wrap(norm.d))>>]
    /\ NormUnchanged

\* _normalize_domain applied to its own result
NormalizeTwice ==
    /\ pc = "norm"
    /\ norm.plain # <<>>
    /\ norm.twice = <<>>
    /\ norm' = [norm EXCEPT !.twice = <<_normalize_domain(norm.plain[1])>>]
    /\ NormUnchanged

\* _process_row on a row whose source_domain cell is d
ResolveAsSource ==
    /\ pc = "norm"
    /\ norm.as_source = <<>>
    /\ norm' = [norm EXCEPT !.as_source = <<SourceIdentity(norm.d)>>]
    /\ NormUnchanged

\* _process_row on a row whose lookalike_domain cell is d
ResolveAsEntry ==
    /\ pc = "norm"
    /\ norm.as_entry = <<>>
    /\ norm' = [norm EXCEPT !.as_entry = <<EntryIdentity(norm.d)>>]
    /\ NormUnchanged

NormNext ==
    \/ NormalizePlain
    \/ NormalizeWrapped
    \/ NormalizeTwice
    \/ ResolveAsSource
    \/ ResolveAsEntry

NormSpec == NormInit /\ [][NormNext]_vars

\* ---------------------------------------------------------------------
\* External enrichment (urlscan_enricher.py, lookalike_domain.py)

\* Longest domain list handed to the enricher, and the clock value after
\* which the caller starts no further call
MaxDomains == 2
MaxClock == 4

\* Delay between requests (seconds)
URLSCAN_DELAY == 2

\* Python values the enricher returns
PyNone == [kind |-> "None", items |-> <<>>]
PyStr(s) == [kind |-> "str", items |-> <<s>>]
PyList(xs) == [kind |-> "list", items |-> xs]
PyDict == [kind |-> "dict", items |-> <<>>]

\* Order of str comparison (code points of the letters)
LetterOrder == UpperChars \o LowerChars
CharRank(c) == CHOOSE i \in 1..Len(LetterOrder) : LetterOrder[i] = c

RECURSIVE StrLess(_, _)
StrLess(a, b) ==
    IF b = <<>> THEN FALSE
    ELSE IF a = <<>> THEN TRUE
    ELSE IF Head(a) = Head(b) THEN StrLess(Tail(a), Tail(b))
    ELSE CharRank(Head(a)) < CharRank(Head(b))

\* sorted(list(set_of_strings))
RECURSIVE sorted(_)
sorted(S) ==
    IF S = {} THEN <<>>
    ELSE LET m == CHOOSE x \in S : \A y \in S \ {x} : StrLess(x, y)
         IN  <<m>> \o sorted(S \ {m})

\* Domains the caller asks about, and the lists it passes
EnrichDomains == {<<"d">>, <<"e">>}
DomainLists == UNION {[1..k -> EnrichDomains] : k \in 0..MaxDomains}

\* "page" objects of URLScan search results (a key may be missing)
IP1 == <<"i", "p">>
Page(ip, domain) == [ip |-> ip, domain |-> domain]
PagesNone == <<>>
PagesOne == <<Page(IP1, <<"x">>)>>
PagesNoKeys == <<Page(AbsentSeq, AbsentSeq)>>
PagesMany == <<Page(IP1, <<"x">>), Page(IP1, <<"D">>), Page(IP1, <<"b">>),
               Page(AbsentSeq, AbsentSeq), Page(IP1, <<"x">>)>>

\* What requests.get (and response.json) can do: raise, or answer with a
\* status code and, for 200, a result list
Response(raises, status_code, results) ==
    [raises |-> raises, status_code |-> status_code, results |-> results]
Responses ==
    {Response(TRUE, 0, <<>>), Response(FALSE, 429, <<>>), Response(FALSE, 500, <<>>)}
    \cup {Response(FALSE, 200, r) : r \in {PagesNone, PagesOne, PagesNoKeys, PagesMany}}

Returns(value, sleep) == [value |-> value, sleep |-> sleep, raised |-> FALSE]
Raises == [value |-> PyNone, sleep |-> 0, raised |-> TRUE]

\* Mutant of get_domain_ip_from_urlscan: no except clause
get_domain_ip_no_except(response) ==
    IF response.raises THEN Raises
    ELSE IF response.status_code = 200 THEN
        IF response.results # <<>> /\ response.results[1].ip \notin {AbsentSeq, <<>>}
        THEN Returns(PyStr(response.results[1].ip), 0)
        ELSE Returns(PyNone, 0)
    ELSE IF response.status_code = 429 THEN Returns(PyNone, URLSCAN_DELAY * 2)
    ELSE Returns(PyNone, 0)

\* Mutant of get_domain_ip_from_urlscan: no sleep on 429
get_domain_ip_no_cooldown(response) ==
    IF response.raises THEN Returns(PyNone, 0)
    ELSE IF response.status_code = 200 THEN
        IF response.results # <<>> /\ response.results[1].ip \notin {AbsentSeq, <<>>}
        THEN Returns(PyStr(response.results[1].ip), 0)
        ELSE Returns(PyNone, 0)
    ELSE Returns(PyNone, 0)

\* URLScanEnricher.get_domain_ip_from_urlscan, given what the request does:
\* the value returned and the seconds slept after the response
get_domain_ip_from_urlscan(response) ==
    IF response.raises THEN Returns(PyNone, 0)
    ELSE IF response.status_code = 200 THEN
        IF response.results # <<>> /\ response.results[1].ip \notin {AbsentSeq, <<>>}
        THEN Returns(PyStr(response.results[1].ip), 0)
        ELSE Returns(PyNone, 0)
    ELSE IF response.status_code = 429 THEN Returns(PyNone, URLSCAN_DELAY * 2)
    ELSE Returns(PyNone, 0)

\* same_ip_domains of a 200 response: the result domains other than domain
SameIpDomains(domain, results) ==
    {results[i].domain : i \in {j \in 1..Len(results) :
        /\ results[j].domain \notin {AbsentSeq, <<>>}
        /\ lower(results[j].domain) # lower(domain)}}

Searched(value, requested, sleep_before, sleep_after) ==
    [value |-> value, requested |-> requested, sleep_before |-> sleep_before,
     sleep_after |-> sleep_after, raised |-> FALSE]

\* URLScanEnricher.find_same_ip_domains_urlscan after its call of
\* get_domain_ip_from_urlscan returned ip (or raised): whether the search
\* request is sent, the value returned and the seconds slept before and
\* after the request
find_same_ip_domains_urlscan(domain, ip, response) ==
    IF ip.raised THEN Searched(PyList(<<>>), FALSE, 0, 0)
    ELSE IF ip.value.kind = "None" THEN Searched(PyList(<<>>), FALSE, 0, 0)
    ELSE IF response.raises THEN Searched(PyList(<<>>), TRUE, URLSCAN_DELAY, 0)
    ELSE IF response.status_code = 200
    THEN Searched(PyList(sorted(SameIpDomains(domain, response.results))),
                  TRUE, URLSCAN_DELAY, 0)
    ELSE IF response.status_code = 429
    THEN Searched(PyList(<<>>), TRUE, URLSCAN_DELAY, URLSCAN_DELAY * 2)
    ELSE Searched(PyList(<<>>), TRUE, URLSCAN_DELAY, 0)

\* The lists find_lookalike_domains is called with
SourceDomainLists == {<<>>, <<<<"d">>>>, <<<<"d">>, <<"e">>>>}

\* What the database query can do: raise, or return rows
DbOutcomes == {[raises |-> TRUE, rows |-> <<>>], [raises |-> FALSE, rows |-> <<>>],
               [raises |-> FALSE, rows |-> <<<<"x">>, <<"b">>>>]}

\* LookalikeDomains.find_lookalike_domains
find_lookalike_domains(source_domains, db_handler, outcome) ==
    IF source_domains = <<>> THEN Returns(PyList(<<>>), 0)
    ELSE IF ~db_handler THEN Returns(PyList(<<>>), 0)
    ELSE IF outcome.raises THEN Returns(PyList(<<>>), 0)
    ELSE Returns(PyList(outcome.rows), 0)

\* The request log of a new call: the last request made before it
Carry(log) == IF log = <<>> THEN <<>> ELSE <<log[Len(log)]>>

Request(at, response, value) ==
    [at |-> at, status_code |-> response.status_code, returned |-> value]

EnrichInit ==
    /\ pc = "enr_idle"
    /\ PipelineIdle
    /\ NormIdle
    /\ EnricherIdle

\* A single call of get_domain_ip_from_urlscan
CallGetDomainIp ==
    /\ pc = "enr_idle"
    /\ clock < MaxClock
    /\ \E domain \in EnrichDomains, response \in Responses :
        \E r \in {get_domain_ip_from_urlscan(response)} :
          /\ enr_call' = "get_domain_ip_from_urlscan"
          /\ enr_domains' = <<domain>>
          /\ enr_index' = 0
          /\ ip_address' = <<>>
          /\ same_ip_mapping' = <<>>
          /\ requests' = Append(Carry(requests), Request(clock, response, r.value))
          /\ clock' = clock + r.sleep
          /\ enr_result' = IF r.raised THEN <<>> ELSE <<r.value>>
          /\ pc' = IF r.raised THEN "enr_raised" ELSE "enr_idle"
    /\ UNCHANGED <<builderVars, selectorVars, json_out, normVars, lookalike_out>>

\* A single call of find_same_ip_domains_urlscan begins
CallFindSameIp ==
    /\ pc = "enr_idle"
    /\ clock < MaxClock
    /\ \E domain \in EnrichDomains : enr_domains' = <<domain>>
    /\ enr_call' = "find_same_ip_domains_urlscan"
    /\ enr_index' = 0
    /\ ip_address' = <<>>
    /\ same_ip_mapping' = <<>>
    /\ enr_result' = <<>>
    /\ requests' = Carry(requests)
    /\ pc' = "enr_ip_request"
    /\ UNCHANGED <<builderVars, selectorVars, json_out, normVars, clock, lookalike_out>>

\* find_same_ip_domains_batch begins (and returns {} for an empty list)
CallBatch ==
    /\ pc = "enr_idle"
    /\ clock < MaxClock
    /\ \E domains \in DomainLists :
          /\ enr_domains' = domains
          /\ enr_result' = IF domains = <<>> THEN <<PyDict>> ELSE <<>>
          /\ pc' = IF domains = <<>> THEN "enr_idle" ELSE "enr_ip_request"
    /\ enr_call' = "find_same_ip_domains_batch"
    /\ enr_index' = 0
    /\ ip_address' = <<>>
    /\ same_ip_mapping' = <<>>
    /\ requests' = Carry(requests)
    /\ UNCHANGED <<builderVars, selectorVars, json_out, normVars, clock, lookalike_out>>

\* find_same_ip_domains_urlscan calls get_domain_ip_from_urlscan for the
\* current domain
IpLookup ==
    /\ pc = "enr_ip_request"
    /\ \E response \in Responses :
        \E r \in {get_domain_ip_from_urlscan(response)} :
          /\ ip_address' = <<r>>
          /\ requests' = Append(requests, Request(clock, response, r.value))
          /\ clock' = clock + r.sleep
    /\ pc' = "enr_ip_returned"
    /\ UNCHANGED <<builderVars, selectorVars, json_out, normVars, enr_call, enr_domains,
                   enr_index, same_ip_mapping, enr_result, lookalike_out>>

\* The rest of find_same_ip_domains_urlscan for the current domain, and its
\* return: to the caller, or into the loop of find_same_ip_domains_batch
SameIpSearch ==
    /\ pc = "enr_ip_returned"
    /\ \E response \in Responses :
        \E r \in {find_same_ip_domains_urlscan(enr_domains[enr_index + 1],
                                               ip_address[1], response)} :
          /\ requests' = IF r.requested
                          THEN Append(requests,
                                      Request(clock + r.sleep_before, response, r.value))
                          ELSE requests
          /\ clock' = IF r.requested THEN clock + r.sleep_before + r.sleep_after
                       ELSE clock
          /\ same_ip_mapping' =
                IF enr_call = "find_same_ip_domains_batch" /\ ~r.raised
                THEN (enr_domains[enr_index + 1] :> r.value.items) @@ same_ip_mapping
                ELSE same_ip_mapping
          /\ enr_result' =
                IF r.raised THEN <<>>
                ELSE IF enr_call = "find_same_ip_domains_urlscan" THEN <<r.value>>
                ELSE IF enr_index + 1 = Len(enr_domains) THEN <<PyDict>>
                ELSE <<>>
          /\ pc' = IF r.raised THEN "enr_raised"
                    ELSE IF enr_index + 1 = Len(enr_domains) THEN "enr_idle"
                    ELSE "enr_ip_request"
    /\ enr_index' = enr_index + 1
    /\ ip_address' = <<>>
    /\ UNCHANGED <<builderVars, selectorVars, json_out, normVars, enr_call, enr_domains,
                   lookalike_out>>

\* The call of LookalikeDomains.find_lookalike_domains
FindLookalikeDomains ==
    /\ pc = "enr_idle"
    /\ lookalike_out = <<>>
    /\ \E source_domains \in SourceDomainLists, db_handler \in BOOLEAN, outcome \in DbOutcomes :
        \E r \in {find_lookalike_domains(source_domains, db_handler, outcome)} :
          /\ lookalike_out' = IF r.raised THEN <<>> ELSE <<r.value>>
          /\ pc' = IF r.raised THEN "enr_raised" ELSE "enr_idle"
    /\ UNCHANGED <<builderVars, selectorVars, json_out, normVars, enr_call, enr_domains,
                   enr_index, ip_address, same_ip_mapping, enr_result, clock, requests>>

EnrichNext ==
    \/ CallGetDomainIp
    \/ CallFindSameIp
    \/ CallBatch
    \/ IpLookup
    \/ SameIpSearch
    \/ FindLookalikeDomains

EnrichSpec == EnrichInit /\ [][EnrichNext]_vars

\* ------------------------------------------------------------------- claims
Done == pc = "done"
Returned == result[1]

\* The source key of a row
SourceKey(row) == _normalize_domain(row.source_domain)

\* Rows of a frame in another order
RowOrders(rows) ==
    LET n == Len(rows)
    IN  {[i \in 1..n |-> rows[p[i]]] :
            p \in {q \in [1..n -> 1..n] : \A i, j \in 1..n : q[i] = q[j] => i = j}}

\* Whether _process_row raises on this row in builder state b
RowRaises(b, row) ==
    _process_row([nodes |-> b.nodes, edges |-> b.edges, graph |-> b.graph,
                  raised |-> FALSE], row).raised

\* Identity keys the rows refer to: the source key, each normalized entry of
\* the two domain lists and each trimmed crypto address, of the rows that
\* have a source key.
ReferencedKeys(rows) ==
    UNION { {SourceKey(rows[i])}
            \cup Range(_parse_domain_list(rows[i].lookalike_domain))
            \cup Range(_parse_domain_list(rows[i].same_ip_domain))
            \cup Range(_parse_crypto_list(rows[i].crypto_address))
          : i \in {j \in 1..Len(rows) : SourceKey(rows[j]) # <<>>} }

\* C1: after build_graph returns, the node list holds exactly one node per
\* distinct normalized domain key and per distinct trimmed crypto address
\* the rows refer to: none duplicated, none missing.
C1_Uniqueness ==
    Done =>
        /\ Keys(Returned.nodes) = ReferencedKeys(df)
        /\ \A i, j \in 1..Len(Returned.nodes) :
              Returned.nodes[i].id = Returned.nodes[j].id => i = j

\* C2: no edge of the edge list, of any of the three types, has its source
\* equal to its target, during build_graph and in the returned snapshot.
C2_NoSelfLoops ==
    /\ \A i \in 1..Len(edges) : edges[i].source # edges[i].target
    /\ Done => \A i \in 1..Len(Returned.links) :
                  Returned.links[i].source # Returned.links[i].target

\* C3: when a selector runs, an input link is kept if and only if both of
\* its endpoint ids belong to the selected node list, so no link of the
\* reduced output refers to a node that is absent from the output node list.
C3_Consistent(input, out) ==
    LET ids == IdsOf(out.nodes)
    IN  /\ out.links = SelectSeq(input.links,
                          LAMBDA l : l.source \in ids /\ l.target \in ids)
        /\ \A i \in 1..Len(out.links) :
              out.links[i].source \in ids /\ out.links[i].target \in ids

C3_SelectorRuns == Len(graph_data.nodes) > 1000

C3_NoDanglingLinks ==
    /\ (C3_SelectorRuns /\ unified_out # <<>>) =>
          C3_Consistent(graph_data, unified_out[1])
    /\ (C3_SelectorRuns /\ optimized_out # <<>>) =>
          C3_Consistent(graph_data, optimized_out[1])

\* both selectors ran, each dropped some nodes and links and kept some links
C3_Witness ==
    /\ C3_SelectorRuns
    /\ unified_out # <<>>
    /\ optimized_out # <<>>
    /\ Len(unified_out[1].nodes) < Len(graph_data.nodes)
    /\ Len(unified_out[1].links) \in 1..(Len(graph_data.links) - 1)
    /\ Len(optimized_out[1].nodes) < Len(graph_data.nodes)
    /\ Len(optimized_out[1].links) \in 1..(Len(graph_data.links) - 1)

\* C4: after each row iteration processed_rows + skipped_rows is the number
\* of rows consumed so far, and in the returned statistics it is the number
\* of rows handed to build_graph.
C4_RowAccounting ==
    /\ pc = "loop" => processed_rows + skipped_rows = idx
    /\ Done => Returned.statistics.processed_rows + Returned.statistics.skipped_rows
                  = Len(df)

C4_Witness ==
    /\ Done
    /\ Len(df) = 2
    /\ Returned.statistics.processed_rows = 1
    /\ Returned.statistics.skipped_rows = 1

\* C5: first-write-wins.  During build_graph a node, once in the registry,
\* is never replaced or changed by a later row; two rows with the same
\* source key and different discovery_method leave one node that carries the
\* first row's metadata.
C5_NodesKept ==
    (pc = "loop" /\ pc' \in {"loop", "done"}) =>
        /\ Len(nodes') >= Len(nodes)
        /\ \A i \in 1..Len(nodes) : nodes'[i] = nodes[i]

C5_FirstRowMetadata ==
    (Done /\ Len(df) >= 2 /\ SourceKey(df[1]) # <<>>
          /\ SourceKey(df[2]) = SourceKey(df[1])) =>
        /\ Cardinality({i \in 1..Len(Returned.nodes) :
                          Returned.nodes[i].id = SourceKey(df[1])}) = 1
        /\ NodeOf(Returned.nodes, SourceKey(df[1])).discovery_method
              = df[1].discovery_method
        /\ NodeOf(Returned.nodes, SourceKey(df[1])).node_type = "source_domain"

C5_FirstWriteWins == [][C5_NodesKept]_vars /\ []C5_FirstRowMetadata

C5_Witness ==
    /\ Done
    /\ Len(df) = 2
    /\ SourceKey(df[1]) # <<>>
    /\ SourceKey(df[2]) = SourceKey(df[1])
    /\ df[2].discovery_method # df[1].discovery_method
    /\ NodeOf(nodes, SourceKey(df[1])).discovery_method = df[1].discovery_method

\* C6: a row whose processing raises is counted as skipped, the loop goes on
\* with the next row, and build_graph leaves the loop only by returning a
\* snapshot after the last row.
C6_RowStep ==
    /\ (pc = "loop" /\ idx < Len(df) /\ RowRaises(Builder, df[idx + 1])) =>
          /\ pc' = "loop"
          /\ idx' = idx + 1
          /\ skipped_rows' = skipped_rows + 1
          /\ processed_rows' = processed_rows
    /\ pc = "loop" =>
          /\ pc' \in {"loop", "done"}
          /\ pc' = "done" => (idx = Len(df) /\ Len(result') = 1)

C6_BadRowNeverAborts == [][C6_RowStep]_vars

\* a first row that raised, a second row processed after it, a snapshot
C6_Witness ==
    /\ Done
    /\ Len(df) = 2
    /\ RowRaises(ClearedBuilder, df[1])
    /\ Returned.statistics.skipped_rows = 1
    /\ Returned.statistics.processed_rows = 1

\* C7: a row whose source_domain normalizes to the empty string increments
\* skipped_rows, not processed_rows, and is not processed further.
C7_RowStep ==
    (pc = "loop" /\ idx < Len(df) /\ SourceKey(df[idx + 1]) = <<>>) =>
        /\ skipped_rows' = skipped_rows + 1
        /\ processed_rows' = processed_rows
        /\ nodes' = nodes
        /\ edges' = edges

C7_EmptySourceSkipped == [][C7_RowStep]_vars

\* C8 as stated: row order affects only the order of the edge list, so every
\* permutation of the rows gives the same nodes.
C8_OnlyEdgeOrder ==
    Done => \A rows \in RowOrders(df) :
                Range(build_graph(rows).nodes) = Range(Returned.nodes)

\* C8 as amended: every permutation of the rows gives the same set of node
\* identity keys (the role and metadata a node carries may depend on the
\* order of the rows).
C8_SameKeys ==
    Done => \A rows \in RowOrders(df) :
                Keys(build_graph(rows).nodes) = Keys(Returned.nodes)

C8_Witness ==
    /\ Done
    /\ Len(df) = 2
    /\ df[1] # df[2]
    /\ Keys(build_graph(Reverse(df)).nodes) = Keys(Returned.nodes)
    /\ Range(build_graph(Reverse(df)).nodes) # Range(Returned.nodes)

\* C9: build_graph clears all prior state: whatever the builder built
\* before, the snapshot it returns is the one a fresh builder returns for
\* the same rows.
C9_ClearsPriorState ==
    Done => /\ Returned = Snapshot(build_graph(df))
            /\ Builder = build_graph(df)

\* a second build on rows that differ from what the builder held before
C9_Witness ==
    /\ Done
    /\ builds = 2
    /\ Len(df) = 1
    /\ Len(Returned.nodes) >= 2
    /\ Len(Returned.links) >= 1

\* C10: clean_data returns, in their order, exactly the rows whose
\* source_domain is present and that have at least one of lookalike_domain,
\* same_ip_domain, crypto_address present; no other row reaches _process_row.
C10_Kept(row) ==
    /\ notna(row.source_domain)
    /\ \/ notna(row.lookalike_domain)
       \/ notna(row.same_ip_domain)
       \/ notna(row.crypto_address)

C10_CleanData ==
    /\ pc \in {"cleaned", "exit_failure", "loop", "done"} =>
          df = SelectSeq(rawDf, C10_Kept)
    /\ (pc = "loop" /\ idx < Len(df)) => C10_Kept(df[idx + 1])

C10_Witness ==
    /\ pc = "loop"
    /\ Len(rawDf) = 2
    /\ Len(df) = 1
    /\ ~C10_Kept(rawDf[1])
    /\ df[1] = rawDf[2]

\* C11: when cleaning leaves zero rows main exits with a failure status:
\* its only step is the exit, the exit changes nothing, nothing follows it,
\* and build_graph was not called, no JSON exported and no HTML written.
C11_ExitStep ==
    /\ (pc = "cleaned" /\ Len(df) = 0) => pc' = "exit_failure"
    /\ pc' = "exit_failure" => UNCHANGED <<builderVars, selectorVars, json_out>>
    /\ pc = "exit_failure" =>
          /\ UNCHANGED vars
          /\ json_out = <<>>
          /\ unified_out = <<>>
          /\ builds = 0 => (result = <<>> /\ nodes = <<>> /\ edges = <<>>
                                /\ graph = EmptyGraph)

C11_EmptyIsFatal == [][C11_ExitStep]_vars

\* a frame of two rows, both dropped by clean_data, and the failure exit
C11_Witness ==
    /\ pc = "exit_failure"
    /\ Len(rawDf) = 2
    /\ Len(df) = 0
    /\ builds = 0
    /\ result = <<>>

\* Whether _smart_optimize_network ran on graph_data and its output is known
UnifiedSelected == Len(graph_data.nodes) > 1000 /\ unified_out # <<>>
OptimizedSelected == Len(graph_data.nodes) > 1000 /\ optimized_out # <<>>

IsSource(node) == node.domain_type = "source_domain"
IsCrypto(node) == node.type = "crypto"
IsLookalike(node) == node.domain_type = "lookalike_domain"
IsSameIp(node) == node.domain_type = "same_ip_domain"

\* The other (non-priority) nodes of the input: neither source, crypto nor
\* lookalike
OtherNodes(ns) ==
    SelectSeq(ns, LAMBDA n : ~IsSource(n) /\ ~IsCrypto(n) /\ ~IsLookalike(n))

\* C12: whenever _smart_optimize_network runs, every input node with role
\* source_domain and every node of type crypto is in the output node list.
C12_SourceAndCryptoKept ==
    UnifiedSelected =>
        \A i \in 1..Len(graph_data.nodes) :
            (IsSource(graph_data.nodes[i]) \/ IsCrypto(graph_data.nodes[i])) =>
                graph_data.nodes[i].id \in IdsOf(unified_out[1].nodes)

\* the selector dropped nodes of an input that has source and crypto nodes
C12_Witness ==
    /\ UnifiedSelected
    /\ Len(unified_out[1].nodes) < Len(graph_data.nodes)
    /\ \E i \in 1..Len(graph_data.nodes) : IsSource(graph_data.nodes[i])
    /\ \E i \in 1..Len(graph_data.nodes) : IsCrypto(graph_data.nodes[i])

\* C13: whenever the graph exceeds 1000 nodes, every node the builder
\* created with role source_domain is in the output node list of
\* _optimize_for_large_networks.
C13_SourcesKept ==
    OptimizedSelected =>
        \A i \in 1..Len(graph_data.nodes) :
            IsSource(graph_data.nodes[i]) =>
                graph_data.nodes[i].id \in IdsOf(optimized_out[1].nodes)

\* More than 1500 other nodes in the input of _smart_optimize_network
ManyOthers == Len(OtherNodes(graph_data.nodes)) > 1500

\* C14: with more than 1500 other nodes the Unified selector keeps exactly
\* the same-IP nodes at positions 0, N, 2N, ... of their input order with
\* N = ceil(count / target) (target 1000 when count > 2000, else 1200), so
\* at most target same-IP nodes are kept.
C14_StrideCeil ==
    (UnifiedSelected /\ ManyOthers) =>
        LET same_ip == SelectSeq(graph_data.nodes, IsSameIp)
            count == Len(same_ip)
            target == IF count > 2000 THEN 1000 ELSE 1200
            N == (count + target - 1) \div target
            kept == SelectSeq(unified_out[1].nodes, IsSameIp)
        IN  /\ kept = Stride(same_ip, N)
            /\ Len(kept) <= target

\* C15 as stated: with more than 1500 other nodes the output of
\* _smart_optimize_network holds at most 100 lookalike-domain nodes.
C15_LookalikeCap ==
    (UnifiedSelected /\ ManyOthers) =>
        Len(SelectSeq(unified_out[1].nodes, IsLookalike)) <= 100

\* C15 as amended: with more than 1500 other nodes the output of
\* _smart_optimize_network holds every lookalike-domain node of the input,
\* in their input order, however many there are.
C15_LookalikesKept ==
    (UnifiedSelected /\ ManyOthers) =>
        SelectSeq(unified_out[1].nodes, IsLookalike)
            = SelectSeq(graph_data.nodes, IsLookalike)

\* more than 100 lookalike nodes in the output of a run that dropped nodes
C15_Witness ==
    /\ UnifiedSelected
    /\ ManyOthers
    /\ Len(unified_out[1].nodes) < Len(graph_data.nodes)
    /\ Len(SelectSeq(unified_out[1].nodes, IsLookalike)) > 100

\* C16: when _smart_optimize_network runs and there are at most 1500 other
\* nodes, the output holds every input node, each once and unaltered, and
\* the input links unchanged.
C16_AllKept ==
    (UnifiedSelected /\ ~ManyOthers) =>
        /\ Range(unified_out[1].nodes) = Range(graph_data.nodes)
        /\ Len(unified_out[1].nodes) = Len(graph_data.nodes)
        /\ unified_out[1].links = graph_data.links

\* the selector ran on 1500 other nodes, priority nodes and links
C16_Witness ==
    /\ UnifiedSelected
    /\ Len(OtherNodes(graph_data.nodes)) = 1500
    /\ Len(graph_data.nodes) > 1500
    /\ Len(unified_out[1].links) > 0

\* C17: for node-link data of at most 1000 nodes both generators render the
\* node and link lists unchanged; above 1000 nodes the Unified generator
\* renders the selection of _smart_optimize_network, and the Optimized one
\* drops nodes once more than 2000 nodes are no priority nodes.
C17_ThresholdOnly ==
    /\ unified_out # <<>> =>
          unified_out[1] = IF Len(graph_data.nodes) <= 1000 THEN graph_data
                           ELSE _smart_optimize_network(graph_data)
    /\ (optimized_out # <<>> /\ Len(graph_data.nodes) <= 1000) =>
          optimized_out[1] = graph_data
    /\ (OptimizedSelected /\ Len(graph_data.nodes) > 2000) =>
          Len(optimized_out[1].nodes) < Len(graph_data.nodes)

\* exactly 1000 nodes, the priority nodes last, rendered by both generators
C17_Witness ==
    /\ Len(graph_data.nodes) = 1000
    /\ unified_out # <<>>
    /\ optimized_out # <<>>
    /\ IsSameIp(graph_data.nodes[1])
    /\ IsSource(graph_data.nodes[1000])
    /\ Len(graph_data.links) > 0

\* Equality of two fractions <<numerator, denominator>>
FracEq(a, b) == a[1] * b[2] = b[1] * a[2]

\* 2*E / (N*(N-1)) when N > 1, else 0
DensityOf(N, E) == IF N > 1 THEN <<2 * E, N * (N - 1)>> ELSE <<0, 1>>

\* The distinct unordered {source, target} pairs of an edge list
DistinctPairs(links) == {{links[i].source, links[i].target} : i \in 1..Len(links)}

CountOthers(entries, key) == Cardinality({i \in 1..Len(entries) : entries[i] # key})

\* Relationship entries of a row: all of them, and those that differ from
\* the row's source key (every parsed entry is non-empty)
AllEntries(row) ==
    Len(_parse_domain_list(row.lookalike_domain))
    + Len(_parse_domain_list(row.same_ip_domain))
    + Len(_parse_crypto_list(row.crypto_address))

QualifyingEntries(row) ==
    CountOthers(_parse_domain_list(row.lookalike_domain), SourceKey(row))
    + CountOthers(_parse_domain_list(row.same_ip_domain), SourceKey(row))
    + CountOthers(_parse_crypto_list(row.crypto_address), SourceKey(row))

\* C19: during build_graph the edge list only grows at its end, a row with a
\* source key appends one edge for every relationship entry that differs
\* from the key (and no more edges than it has entries), and statistics.edges
\* is the length of the edge list.
C19_Step ==
    /\ pc = "loop" =>
          /\ Len(edges') >= Len(edges)
          /\ SubSeq(edges', 1, Len(edges)) = edges
    /\ (pc = "loop" /\ idx < Len(df) /\ SourceKey(df[idx + 1]) # <<>>) =>
          /\ Len(edges') >= Len(edges) + QualifyingEntries(df[idx + 1])
          /\ Len(edges') <= Len(edges) + AllEntries(df[idx + 1])
    /\ (pc = "loop" /\ pc' = "done") =>
          result'[1].statistics.edges = Len(edges')

C19_AppendOnly == [][C19_Step]_vars

\* C20: a row with a source key and a crypto_address but no chain value
\* (no chain column, or the cell missing) is counted as processed, and each
\* of its addresses has a node, with chain BTC when the row created it, and
\* a domain_to_crypto edge from the source key tagged chain BTC.
C20_Step ==
    (/\ pc = "loop"
     /\ idx < Len(df)
     /\ SourceKey(df[idx + 1]) # <<>>
     /\ notna(df[idx + 1].crypto_address)
     /\ df[idx + 1].chain \in {AbsentSeq, NaN}) =>
        /\ processed_rows' = processed_rows + 1
        /\ skipped_rows' = skipped_rows
        /\ \A address \in Range(_parse_crypto_list(df[idx + 1].crypto_address)) :
              /\ address \in Keys(nodes')
              /\ (address \notin Keys(nodes) /\ NodeOf(nodes', address).type = "crypto")
                    => NodeOf(nodes', address).chain = BTC
              /\ \E j \in (Len(edges) + 1)..Len(edges') :
                    /\ edges'[j].source = SourceKey(df[idx + 1])
                    /\ edges'[j].target = address
                    /\ edges'[j].type = "domain_to_crypto"
                    /\ edges'[j].chain = BTC

C20_DefaultChain == [][C20_Step]_vars

\* Sum of the counts of a breakdown (a mapping from type tag to count)
RECURSIVE SumOver(_, _)
SumOver(f, keys) ==
    IF keys = {} THEN 0
    ELSE LET k == CHOOSE x \in keys : TRUE
         IN  f[k] + SumOver(f, keys \ {k})

BreakdownSum(f) == SumOver(f, DOMAIN f)

\* C24: in every snapshot returned by build_graph, statistics.nodes is the
\* length of the node list, statistics.edges is the length of the link list,
\* the counts of node_breakdown sum to statistics.nodes and the counts of
\* edge_breakdown sum to statistics.edges.
C24_StatisticsConsistent ==
    Done =>
        /\ Returned.statistics.nodes = Len(Returned.nodes)
        /\ Returned.statistics.edges = Len(Returned.links)
        /\ BreakdownSum(Returned.statistics.node_breakdown) = Returned.statistics.nodes
        /\ BreakdownSum(Returned.statistics.edge_breakdown) = Returned.statistics.edges

\* A returned snapshot with several node types, several edge types and two
\* links between the same pair of nodes
C24_Witness ==
    /\ Done
    /\ Cardinality(DOMAIN Returned.statistics.node_breakdown) > 1
    /\ Cardinality(DOMAIN Returned.statistics.edge_breakdown) > 1
    /\ Cardinality(DistinctPairs(Returned.links)) < Len(Returned.links)

\* C25: in every snapshot the target of each domain_to_crypto edge is a node
\* of type crypto and both endpoints of each lookalike_domain or
\* same_ip_domain edge are nodes of type domain.
C25_NoCollision ==
    Done =>
        \A i \in 1..Len(Returned.links) :
            LET e == Returned.links[i]
            IN  /\ e.source \in Keys(Returned.nodes)
                /\ e.target \in Keys(Returned.nodes)
                /\ e.type = "domain_to_crypto" =>
                      NodeOf(Returned.nodes, e.target).type = "crypto"
                /\ e.type \in {"lookalike_domain", "same_ip_domain"} =>
                      /\ NodeOf(Returned.nodes, e.source).type = "domain"
                      /\ NodeOf(Returned.nodes, e.target).type = "domain"

\* Whether build_graph counts row i of the frame as processed: it has a
\* source key and _process_row does not raise in the state the rows before
\* it leave
ProcessedRow(rows, i) ==
    /\ SourceKey(rows[i]) # <<>>
    /\ ~RowRaises(RunRows(ClearedBuilder, SubSeq(rows, 1, i - 1)), rows[i])

\* Keys the rows before row i refer to as a relationship entry: the
\* normalized entries of their domain lists and their crypto addresses
EarlierTargets(rows, i) ==
    UNION { {_normalize_domain(e) : e \in Range(_parse_domain_list(rows[j].lookalike_domain))}
            \cup {_normalize_domain(e) : e \in Range(_parse_domain_list(rows[j].same_ip_domain))}
            \cup Range(_parse_crypto_list(rows[j].crypto_address))
          : j \in {k \in 1..(i - 1) : SourceKey(rows[k]) # <<>>} }

\* C26 as stated: after build_graph the source key of every processed row
\* has role source_domain in the node list, whatever earlier rows did.
C26_SourceRole ==
    Done =>
        \A i \in 1..Len(df) :
            ProcessedRow(df, i) =>
                /\ SourceKey(df[i]) \in Keys(Returned.nodes)
                /\ NodeOf(Returned.nodes, SourceKey(df[i])).node_type = "source_domain"

\* C26: after build_graph the source key of every processed row is in the
\* node list, and it has role source_domain unless an earlier row referred
\* to that key as a relationship entry (the node then keeps the role it was
\* created with).
C26_SourceRoleUnlessEarlier ==
    Done =>
        \A i \in 1..Len(df) :
            ProcessedRow(df, i) =>
                /\ SourceKey(df[i]) \in Keys(Returned.nodes)
                /\ SourceKey(df[i]) \notin EarlierTargets(df, i) =>
                      NodeOf(Returned.nodes, SourceKey(df[i])).node_type = "source_domain"

\* A returned snapshot where the second row's source was a lookalike entry
\* of the first row and kept the lookalike role, and the first row's source
\* has role source_domain
C26_Witness ==
    /\ Done
    /\ Len(df) = 2
    /\ ProcessedRow(df, 1)
    /\ ProcessedRow(df, 2)
    /\ SourceKey(df[2]) # SourceKey(df[1])
    /\ SourceKey(df[2]) \in Range(_parse_domain_list(df[1].lookalike_domain))
    /\ NodeOf(Returned.nodes, SourceKey(df[2])).node_type = "lookalike_domain"
    /\ NodeOf(Returned.nodes, SourceKey(df[1])).node_type = "source_domain"

\* C27: a row that build_graph counts as skipped leaves the node registry,
\* the edge list and the networkx graph exactly as they were before the row.
C27_Step ==
    (pc = "loop" /\ skipped_rows' = skipped_rows + 1) =>
        /\ nodes' = nodes
        /\ edges' = edges
        /\ graph' = graph

C27_SkipAtomic == [][C27_Step]_vars

\* Number of links of one type in a link list
LinksOfType(links, t) == Cardinality({i \in 1..Len(links) : links[i].type = t})

\* C28: the node-link data main hands to the HTML generator has, for every
\* edge type, as many links as edge_breakdown counts, and as many links in
\* total (the generator's total_links) as statistics.edges.
C28_GraphMatchesEdgeList ==
    pc = "written" =>
        /\ Len(unified_out[1].links) = Returned.statistics.edges
        /\ Len(graph_data.links) = Returned.statistics.edges
        /\ \A t \in DOMAIN Returned.statistics.edge_breakdown :
              LinksOfType(graph_data.links, t) = Returned.statistics.edge_breakdown[t]

\* Registry nodes that are an endpoint of no edge of the edge list
IsolatedKeys(ns, es) ==
    {k \in Keys(ns) : \A i \in 1..Len(es) : es[i].source # k /\ es[i].target # k}

\* C30: in every state during build_graph and in the returned snapshot both
\* endpoints of every edge of the edge list are keys of the registry, and
\* once build_graph has returned the node set of the networkx graph is the
\* key set of the registry.
C30_EdgesWithinRegistry ==
    /\ \A i \in 1..Len(edges) :
          edges[i].source \in Keys(nodes) /\ edges[i].target \in Keys(nodes)
    /\ Done =>
          /\ \A i \in 1..Len(Returned.links) :
                /\ Returned.links[i].source \in Keys(Returned.nodes)
                /\ Returned.links[i].target \in Keys(Returned.nodes)
          /\ Range(graph.nodes) = Keys(nodes)
          /\ Len(graph.nodes) = Len(nodes)

\* A returned snapshot with edges and with a registry node that no edge
\* touches (a source whose row raised before any relationship was made)
C30_Witness ==
    /\ Done
    /\ Len(edges) > 0
    /\ IsolatedKeys(nodes, edges) # {}
    /\ skipped_rows > 0

\* C21: for every raw string d, _normalize_domain("HTTPS://WWW." + d + "/")
\* equals _normalize_domain(d).
C21_WrapInvariant ==
    (norm.plain # <<>> /\ norm.wrapped # <<>>) => norm.wrapped[1] = norm.plain[1]

\* C29: a raw string gets the same identity key as a source_domain cell and
\* as a lookalike_domain entry, and normalizing a normalized string changes
\* nothing.
C29_ColumnIndependent ==
    /\ (norm.as_source # <<>> /\ norm.as_entry # <<>>) =>
          norm.as_entry[1] = norm.as_source[1]
    /\ (norm.plain # <<>> /\ norm.twice # <<>>) => norm.twice[1] = norm.plain[1]

\* C22: no enricher call raises into its caller: whatever the HTTP or
\* database call does, get_domain_ip_from_urlscan returns an IP or None,
\* find_same_ip_domains_urlscan and find_lookalike_domains return a list,
\* and find_same_ip_domains_batch returns a mapping with an entry for every
\* input domain.
C22_NeverRaises ==
    /\ pc # "enr_raised"
    /\ (pc = "enr_idle" /\ enr_call # "none") => enr_result # <<>>
    /\ enr_result # <<>> =>
          /\ enr_call = "get_domain_ip_from_urlscan" =>
                enr_result[1].kind \in {"None", "str"}
          /\ enr_call = "find_same_ip_domains_urlscan" =>
                enr_result[1].kind = "list"
          /\ enr_call = "find_same_ip_domains_batch" =>
                /\ enr_result[1].kind = "dict"
                /\ DOMAIN same_ip_mapping = Range(enr_domains)
    /\ lookalike_out # <<>> => lookalike_out[1].kind = "list"

\* A batch over two domains has returned: a request for the first domain
\* raised and its entry is empty, the second domain's entry is not; and
\* find_lookalike_domains has returned
C22_Witness ==
    /\ pc = "enr_idle"
    /\ enr_call = "find_same_ip_domains_batch"
    /\ Len(enr_domains) = 2
    /\ enr_domains[1] # enr_domains[2]
    /\ enr_result # <<>>
    /\ \E i \in 1..Len(requests) : requests[i].status_code = 0
    /\ same_ip_mapping[enr_domains[1]] = <<>>
    /\ same_ip_mapping[enr_domains[2]] # <<>>
    /\ lookalike_out # <<>>

\* C23: a request answered with 429 is followed by no request (and no
\* return to the caller) before 2 * URLSCAN_DELAY seconds have passed, and
\* the call that sent it returns an empty result.
C23_Cooldown ==
    \A i \in 1..Len(requests) :
        requests[i].status_code = 429 =>
            /\ requests[i].returned.items = <<>>
            /\ clock >= requests[i].at + 2 * URLSCAN_DELAY
            /\ i < Len(requests) =>
                  requests[i + 1].at >= requests[i].at + 2 * URLSCAN_DELAY

\* A 429 answer followed by the next request exactly one cooldown later
C23_Witness ==
    \E i \in 1..(Len(requests) - 1) :
        /\ requests[i].status_code = 429
        /\ requests[i + 1].at = requests[i].at + 2 * URLSCAN_DELAY

====
